---- MODULE Spec2Model ----
(***************************************************************************)
(* The proof-of-work ledger server of inccash.                             *)
(*                                                                         *)
(* Three builds of the server live in the repository:                      *)
(*   src/server.js          deposit + webhook, both guarded by the         *)
(*                          validator, three genesis blocks      (Spec)    *)
(*   src/unnamed/part_001   deposit only, unguarded, with an "auto-fix"    *)
(*                          that re-mines genesis at startup (SpecAutoFix) *)
(*   src/unnamed/part_000   webhook only, two genesis blocks               *)
(*                                                                         *)
(* Further specifications of server.js: SpecSaveFails (data.json stops      *)
(* being writable), SpecPending (requests wait in the event loop) and      *)
(* SpecReads (the GET endpoints between the writes).                       *)
(*                                                                         *)
(* The express handlers are synchronous functions, so every request is one *)
(* atomic action.  SHA-256 is modelled by a small deterministic digest     *)
(* over HashLen binary digits: what matters to the program is that it is a *)
(* function of the preimage, that it is recomputed by the validator, and   *)
(* that the miner searches nonces until the rendered digest starts with    *)
(* `difficulty` zeros.                                                     *)
(***************************************************************************)
EXTENDS Integers, Sequences, FiniteSets, TLC

\* ---------------------------------------------------------------- bounds
MaxLen == 5        \* appends are explored while the chain is shorter
HashLen == 6       \* digits of a rendered digest

\* ------------------------------------------------------- mining config
TARGET_BLOCK_TIME_MS == 3000
DIFFICULTY_ADJUSTMENT_INTERVAL == 5
DefaultDifficulty == 4

VARIABLES
  balance,           \* let balance
  transactionRules,  \* let transactionRules: sequence of [id, amount], key order kept
  blockchain,        \* let blockchain: sequence of blocks
  difficulty,        \* let difficulty
  chainId,           \* let chainId
  disk,              \* contents of data.json
  now,               \* Date.now()
  signatureKey,      \* process.env.WEBHOOK_SIGNATURE_KEY is set
  writable,          \* fs.writeFileSync on data.json succeeds
  pending,           \* requests the event loop has accepted and not yet handled
  req,               \* the request (or startup) handled last
  resp,              \* its HTTP status (0 for a startup)
  sent               \* the body of its response

vars == <<balance, transactionRules, blockchain, difficulty, chainId, disk,
          now, signatureKey, writable, pending, req, resp, sent>>

\* ------------------------------------------------------------- inputs
FirstTxId == "nynvg5vw3srg1g3k5qmqqe13x"
SecondTxId == "9KWCWTX3D"

\* Milliseconds that pass while one block is mined and the next request arrives.
Elapsed == {0, 7500, 22500}

\* transactionRules objects found in data.json.
NoRules == <<>>
GenesisRules == << [id |-> FirstTxId, amount |-> 5], [id |-> "pay1", amount |-> 3] >>
RefundRules == << [id |-> "pay1", amount |-> 3], [id |-> "pay0", amount |-> 0],
                  [id |-> "pay2", amount |-> -2] >>

\* The deployments explored: the transactionRules and the `difficulty` member
\* of a data.json with an empty chain (<<>> is an absent member), and whether
\* WEBHOOK_SIGNATURE_KEY is set in the environment.
Deployments ==
  { [rules |-> NoRules, difficulty |-> <<>>, key |-> FALSE],
    [rules |-> NoRules, difficulty |-> <<-1>>, key |-> FALSE],
    [rules |-> GenesisRules, difficulty |-> <<0>>, key |-> TRUE],
    [rules |-> RefundRules, difficulty |-> <<1>>, key |-> TRUE] }

Amount(kind, val) == [kind |-> kind, val |-> val]

\* req.body of a deposit; "" stands for a missing (falsy) transactionId, and
\* the amount is what Number() is applied to.
DepositBodies ==
  { [transactionId |-> "dep1", amount |-> Amount("num", 2)],
    [transactionId |-> "", amount |-> Amount("num", 2)],
    [transactionId |-> "dep1", amount |-> Amount("num", 0)],
    [transactionId |-> "dep1", amount |-> Amount("num", -3)],
    [transactionId |-> "dep1", amount |-> Amount("inf", 0)],
    [transactionId |-> "dep1", amount |-> Amount("absent", 0)] }

\* A webhook delivery: whether its x-square-signature matches the HMAC of the
\* body, event.type and event.data.id.
WebhookEvents ==
  { [signature |-> "match", type |-> "payment.created", id |-> "pay1"],
    [signature |-> "match", type |-> "payment.created", id |-> "pay2"],
    [signature |-> "match", type |-> "payment.created", id |-> "pay0"],
    [signature |-> "match", type |-> "payment.updated", id |-> "pay1"],
    [signature |-> "mismatch", type |-> "payment.created", id |-> "pay1"] }

\* ------------------------------------------------------------- hasher
Modulus == 2 ^ HashLen

\* The rendering of a digest value: HashLen digits, most significant first.
ToHex(n) == [i \in 1..HashLen |-> (n \div (2 ^ (HashLen - i))) % 2]

RECURSIVE Absorb(_, _, _)
Absorb(acc, s, i) ==
  IF i > Len(s) THEN acc
  ELSE Absorb((acc * 5 + s[i] + 3) % Modulus, s, i + 1)

\* crypto.createHash('sha256').update(s).digest('hex')
sha256(s) == ToHex(Absorb(1, s, 1))

\* Characters of an identifier inside a hashed string.
TxCode(id) ==
  CASE id = FirstTxId -> 1
    [] id = SecondTxId -> 2
    [] id = "pay1" -> 3
    [] id = "pay2" -> 4
    [] id = "pay0" -> 5
    [] id = "dep1" -> 6
    [] id = "initial-tx" -> 7
    [] OTHER -> 0

\* The identity seeds Name, Hope, Friend of data.json.
Seeds == <<11, 12, 13>>

computeChainId(seeds) == sha256(<<seeds[1], 0, seeds[2], 0, seeds[3]>>)

makeBlockId(index, transactionId, timestamp) ==
  sha256(<<index, 0, TxCode(transactionId), 0, timestamp>>)

calculateHash(index, prevHash, transactionHash, nonce, timestamp, chainIdLocal, blockIdSeed) ==
  sha256(<<index>> \o prevHash \o transactionHash \o <<nonce, timestamp>>
           \o chainIdLocal \o blockIdSeed)

\* '0'.repeat(n), for n >= 0
Zeros(n) == [i \in 1..n |-> 0]

\* hash.startsWith(prefix)
startsWith(hash, prefix) ==
  /\ Len(prefix) <= Len(hash)
  /\ SubSeq(hash, 1, Len(prefix)) = prefix

Min(a, b) == IF a < b THEN a ELSE b

\* ---------------------------------------------------------------- miner
\* '0'.repeat(diff) throws a RangeError for a negative count.
MineThrows(diff) == diff < 0
\* The do-while loop ends only if some digest starts with the prefix.
MineReturns(diff) == diff >= 0 /\ diff <= HashLen

Least(S) == CHOOSE n \in S : \A m \in S : n <= m

\* The loop of mineBlock with a slip: it leaves after its first iteration.
Accepted_FirstNonce(index, prevHash, transactionHash, nonce, timestamp, cid, blockId, prefix) ==
  TRUE

\* A nonce is accepted when the hash over it starts with the prefix.
Accepted(index, prevHash, transactionHash, nonce, timestamp, cid, blockId, prefix) ==
  startsWith(calculateHash(index, prevHash, transactionHash, nonce, timestamp, cid, blockId),
             prefix)

\* do { nonce++; hash = calculateHash(...) } while (!hash.startsWith(prefix)),
\* entered with `nonce`: the loop leaves with the first accepted nonce above
\* it.  The nonces are tried sixteen at a time (`hits` are the accepted ones
\* among the next sixteen) to keep the evaluation shallow.
RECURSIVE mineLoop(_, _, _, _, _, _, _, _)
mineFrom(hits, index, prevHash, transactionHash, nonce, timestamp, cid, blockId, prefix) ==
  IF hits # {} THEN Least(hits)
  ELSE mineLoop(index, prevHash, transactionHash, nonce + 16, timestamp, cid, blockId, prefix)

mineLoop(index, prevHash, transactionHash, nonce, timestamp, cid, blockId, prefix) ==
  mineFrom({n \in (nonce + 1)..(nonce + 16) :
              Accepted(index, prevHash, transactionHash, n, timestamp, cid, blockId, prefix)},
           index, prevHash, transactionHash, nonce, timestamp, cid, blockId, prefix)

\* The returned block with a slip: the chainId and blockId members are swapped.
minedBlock_SwappedIds(index, prevHash, transactionId, amount, cid, timestamp, miningTimeMs, transactionHash, blockId, nonce) ==
  [chainId |-> blockId, blockId |-> cid, index |-> index, prevHash |-> prevHash,
   transactionHash |-> transactionHash, nonce |-> nonce,
   hash |-> calculateHash(index, prevHash, transactionHash, nonce, timestamp, cid, blockId),
   timestamp |-> timestamp, transactionId |-> transactionId, amount |-> amount,
   miningTimeMs |-> miningTimeMs]

\* The block mineBlock returns once the loop has left with `nonce`.
minedBlock(index, prevHash, transactionId, amount, cid, timestamp, miningTimeMs, transactionHash, blockId, nonce) ==
  [chainId |-> cid, blockId |-> blockId, index |-> index, prevHash |-> prevHash,
   transactionHash |-> transactionHash, nonce |-> nonce,
   hash |-> calculateHash(index, prevHash, transactionHash, nonce, timestamp, cid, blockId),
   timestamp |-> timestamp, transactionId |-> transactionId, amount |-> amount,
   miningTimeMs |-> miningTimeMs]

mineWith(index, prevHash, transactionId, amount, diff, cid, timestamp, miningTimeMs, transactionHash, blockId) ==
  minedBlock(index, prevHash, transactionId, amount, cid, timestamp, miningTimeMs,
             transactionHash, blockId,
             mineLoop(index, prevHash, transactionHash, 0, timestamp, cid, blockId, Zeros(diff)))

\* mineBlock reads the global chainId (cid) and Date.now() (timestamp), and
\* takes miningTimeMs of wall-clock time.
mineBlock(index, prevHash, transactionId, amount, diff, cid, timestamp, miningTimeMs) ==
  mineWith(index, prevHash, transactionId, amount, diff, cid, timestamp, miningTimeMs,
           sha256(<<TxCode(transactionId), 0, amount + 8>>),
           makeBlockId(index, transactionId, timestamp))

\* ------------------------------------------------------------ validator
BlockOk(chain, i, cid, diff) ==
  LET curr == chain[i]
      prev == chain[i - 1]
  IN /\ curr.chainId = cid /\ prev.chainId = cid
     /\ curr.prevHash = prev.hash
     /\ calculateHash(curr.index, curr.prevHash, curr.transactionHash, curr.nonce,
                      curr.timestamp, curr.chainId, curr.blockId) = curr.hash
     /\ startsWith(curr.hash, Zeros(Min(diff, Len(curr.hash))))

isBlockchainValid(chain, cid, diff) ==
  \A i \in 2..Len(chain) : BlockOk(chain, i, cid, diff)

\* ------------------------------------------------ difficulty controller
\* adjustDifficultyIfNeeded with a slip: the slow threshold is `expected`, not
\* twice it.
adjustDifficulty_SlowAtExpected(chain, diff) ==
  LET len == Len(chain) IN
  IF len > 1 /\ len % DIFFICULTY_ADJUSTMENT_INTERVAL = 0
    THEN LET start == len - DIFFICULTY_ADJUSTMENT_INTERVAL
             end == len - 1
             actual == chain[end + 1].timestamp - chain[start + 1].timestamp
             expected == TARGET_BLOCK_TIME_MS * DIFFICULTY_ADJUSTMENT_INTERVAL
         IN IF 2 * actual < expected THEN diff + 1
            ELSE IF actual > expected /\ diff > 1 THEN diff - 1
            ELSE diff
    ELSE diff

\* adjustDifficultyIfNeeded with a slip: the interval test is missing, every
\* append compares the timestamps of the blocks it has.
adjustDifficulty_EveryBlock(chain, diff) ==
  LET len == Len(chain) IN
  IF len > 1
    THEN LET actual == chain[len].timestamp - chain[1].timestamp
             expected == TARGET_BLOCK_TIME_MS * DIFFICULTY_ADJUSTMENT_INTERVAL
         IN IF 2 * actual < expected THEN diff + 1
            ELSE IF actual > expected * 2 /\ diff > 1 THEN diff - 1
            ELSE diff
    ELSE diff

\* expected / 2 is compared as 2 * actual < expected, to stay in the integers.
adjustDifficultyIfNeeded(chain, diff) ==
  LET len == Len(chain) IN
  IF len > 1 /\ len % DIFFICULTY_ADJUSTMENT_INTERVAL = 0
    THEN LET start == len - DIFFICULTY_ADJUSTMENT_INTERVAL
             end == len - 1
             actual == chain[end + 1].timestamp - chain[start + 1].timestamp
             expected == TARGET_BLOCK_TIME_MS * DIFFICULTY_ADJUSTMENT_INTERVAL
         IN IF 2 * actual < expected THEN diff + 1
            ELSE IF actual > expected * 2 /\ diff > 1 THEN diff - 1
            ELSE diff
    ELSE diff

\* ---------------------------------------------------------- persistence
\* The object handed to saveData.
saveData(bal, rules, chain, diff, cid) ==
  [balance |-> bal, transactionRules |-> rules, blockchain |-> chain,
   difficulty |-> <<diff>>, chainId |-> <<cid>>]

\* transactionRules[id]: <<>> when the key is absent
RuleOf(rules, id) ==
  LET hits == {i \in 1..Len(rules) : rules[i].id = id}
  IN IF hits = {} THEN <<>> ELSE <<rules[CHOOSE i \in hits : TRUE].amount>>

\* transactionRules[id] ?? 0
RuleOrZero(rules, id) == IF RuleOf(rules, id) = <<>> THEN 0 ELSE RuleOf(rules, id)[1]

\* ------------------------------------------------------------- startup
\* A genesis push with a slip: every genesis block is mined on the '0' sentinel.
pushGenesis_Unlinked(chain, transactionId, rules, diff, cid, t0, e) ==
  Append(chain,
         mineBlock(Len(chain), <<0>>, transactionId, RuleOrZero(rules, transactionId),
                   diff, cid, t0 + Len(chain) * e, e))

\* const g = mineBlock(index, prevHash, txId, transactionRules[txId] ?? 0,
\* difficulty); blockchain.push(g) -- on a chain of genesis blocks that took
\* e milliseconds each, the first of them started at t0.
pushGenesis(chain, transactionId, rules, diff, cid, t0, e) ==
  Append(chain,
         mineBlock(Len(chain), IF chain = <<>> THEN <<0>> ELSE chain[Len(chain)].hash,
                   transactionId, RuleOrZero(rules, transactionId), diff, cid,
                   t0 + Len(chain) * e, e))

\* The state the module top level leaves: the chain it loaded, or the chain it
\* built and saved.
booted(data, cid, diff, chain, clock, built) ==
  [balance |-> data.balance, transactionRules |-> data.transactionRules,
   blockchain |-> chain, difficulty |-> diff, chainId |-> cid, now |-> clock,
   disk |-> IF built
              THEN saveData(data.balance, data.transactionRules, chain, diff, cid)
              ELSE data]

\* if (!chainId || chainId.length === 0) chainId = computeChainId(Name, Hope, Friend)
LoadedChainId(data) ==
  IF data.chainId = <<>> THEN computeChainId(Seeds) ELSE data.chainId[1]

\* if (!difficulty || difficulty < 1) difficulty = 4
ServerDifficulty(data) ==
  IF data.difficulty = <<>> \/ data.difficulty[1] = 0 \/ data.difficulty[1] < 1
    THEN DefaultDifficulty ELSE data.difficulty[1]

\* Object.keys(transactionRules)[ruleKeys.length - 1]; undefined without rules
LastRuleKey(rules) == IF rules = <<>> THEN "undefined" ELSE rules[Len(rules)].id

\* The three genesis blocks of server.js.
GenesisServer(rules, diff, cid, t0, e) ==
  pushGenesis(
    pushGenesis(
      pushGenesis(<<>>, FirstTxId, rules, diff, cid, t0, e),
      SecondTxId, rules, diff, cid, t0, e),
    LastRuleKey(rules), rules, diff, cid, t0, e)

\* Startup without the test for an empty chain: genesis is mined over
\* whatever data.json held.
BootServer_Rebuild(data, t0, e) ==
  booted(data, LoadedChainId(data), ServerDifficulty(data),
         GenesisServer(data.transactionRules, ServerDifficulty(data),
                       LoadedChainId(data), t0, e),
         t0 + 3 * e, TRUE)

\* Module top level of server.js: load, derive chainId, clamp difficulty,
\* mine three genesis blocks into an empty chain and save.
BootServer(data, t0, e) ==
  IF data.blockchain = <<>>
    THEN booted(data, LoadedChainId(data), ServerDifficulty(data),
                GenesisServer(data.transactionRules, ServerDifficulty(data),
                              LoadedChainId(data), t0, e),
                t0 + 3 * e, TRUE)
    ELSE booted(data, LoadedChainId(data), ServerDifficulty(data), data.blockchain, t0, FALSE)

NoRequest(op) ==
  [op |-> op, transactionId |-> "", blockId |-> <<>>, amount |-> Amount("absent", 0),
   signature |-> "", type |-> ""]

\* Nothing is sent by a startup.
NoBody == [text |-> ""]

\* The first start of server.js on a data.json with an empty chain.  Each of
\* the three genesis blocks takes the same time e to mine.
Init ==
  \E dep \in Deployments, e \in Elapsed :
    LET data == [balance |-> 0, transactionRules |-> dep.rules, blockchain |-> <<>>,
                 difficulty |-> dep.difficulty, chainId |-> <<>>]
    IN \E m \in {BootServer(data, 0, e)} :
       /\ balance = m.balance
       /\ transactionRules = m.transactionRules
       /\ blockchain = m.blockchain
       /\ difficulty = m.difficulty
       /\ chainId = m.chainId
       /\ disk = m.disk
       /\ now = m.now
       /\ signatureKey = dep.key
       /\ writable = TRUE
       /\ pending = <<>>
       /\ req = NoRequest("boot")
       /\ resp = 0
       /\ sent = NoBody

\* -------------------------------------------------------------- deposit
\* Number(amount)
Number(a) ==
  CASE a.kind = "num" -> [finite |-> TRUE, val |-> a.val]
    [] OTHER -> [finite |-> FALSE, val |-> 0]

\* blockchain[blockchain.length - 1], with a slip that reads the first block
Tip_First(chain) == chain[1]

\* blockchain[blockchain.length - 1]
Tip(chain) == chain[Len(chain)]

\* balance += amt, with a slip that drops the credit
Credit_Dropped(bal, amt) == bal

\* balance += amt
Credit(bal, amt) == bal + amt

\* The shared steps with a slip: saveData is called before the adjustment, so
\* the file gets the difficulty from before it.
AppendTransaction_SaveBeforeAdjust(transactionId, amt) ==
  LET prev == Tip(blockchain) IN
  \E mined \in {mineBlock(Len(blockchain), prev.hash, transactionId, amt,
                          difficulty, chainId, now, 0)},
     elapsed \in Elapsed :
       LET block == [mined EXCEPT !.miningTimeMs = elapsed]
           chain == Append(blockchain, block)
       IN /\ blockchain' = chain
          /\ balance' = Credit(balance, amt)
          /\ disk' = IF writable
                       THEN saveData(Credit(balance, amt), transactionRules, chain,
                                     difficulty, chainId)
                       ELSE disk
          /\ difficulty' = adjustDifficultyIfNeeded(chain, difficulty)
          /\ now' = now + elapsed
          /\ resp' = IF writable THEN 200 ELSE 500

\* The steps shared by both endpoints: mine on the tip, push, credit, adjust,
\* save.  The nonce search is a function of the tip and the clock; elapsed is
\* the wall-clock time it took.  fs.writeFileSync writes data.json, or throws
\* when the file cannot be written, which leaves the file as it was and the
\* handler without a catch: express answers 500.
AppendTransaction(transactionId, amt) ==
  LET prev == Tip(blockchain) IN
  \E mined \in {mineBlock(Len(blockchain), prev.hash, transactionId, amt,
                          difficulty, chainId, now, 0)},
     elapsed \in Elapsed :
       LET block == [mined EXCEPT !.miningTimeMs = elapsed]
           chain == Append(blockchain, block)
           diff == adjustDifficultyIfNeeded(chain, difficulty)
       IN /\ blockchain' = chain
          /\ balance' = Credit(balance, amt)
          /\ difficulty' = diff
          /\ disk' = IF writable
                       THEN saveData(Credit(balance, amt), transactionRules, chain, diff, chainId)
                       ELSE disk
          /\ now' = now + elapsed
          /\ resp' = IF writable THEN 200 ELSE 500

\* res.json({ ok: true, balance, block }), or the error page express sends
\* for the exception of saveData.
DepositBody(bal, block) ==
  IF writable THEN [ok |-> TRUE, balance |-> bal, block |-> block]
  ELSE [error |-> "Internal Server Error"]

\* The handler of POST /deposit with a slip: the validator is not consulted.
PostDeposit_Unguarded(body, valid) ==
  LET transactionId == body.transactionId
      amt == Number(body.amount)
  IN
  /\ req' = [op |-> "deposit", transactionId |-> transactionId, blockId |-> <<>>,
             amount |-> body.amount, signature |-> "", type |-> ""]
  /\ UNCHANGED <<transactionRules, chainId, signatureKey, writable>>
  /\ IF transactionId = "" \/ ~amt.finite \/ amt.val <= 0
       THEN /\ resp' = 400
            /\ sent' = [error |-> "Provide transactionId and a positive amount"]
            /\ UNCHANGED <<balance, blockchain, difficulty, disk, now>>
       ELSE /\ Len(blockchain) < MaxLen + 1
            /\ MineReturns(difficulty)
            /\ AppendTransaction(transactionId, amt.val)
            /\ sent' = DepositBody(balance', Tip(blockchain'))

\* The handler of POST /deposit on req.body = body; valid is what
\* isBlockchainValid(blockchain) returns when the handler calls it.
PostDeposit(body, valid) ==
  LET transactionId == body.transactionId
      amt == Number(body.amount)
  IN
  /\ req' = [op |-> "deposit", transactionId |-> transactionId, blockId |-> <<>>,
             amount |-> body.amount, signature |-> "", type |-> ""]
  /\ UNCHANGED <<transactionRules, chainId, signatureKey, writable>>
  /\ IF transactionId = "" \/ ~amt.finite \/ amt.val <= 0
       THEN /\ resp' = 400
            /\ sent' = [error |-> "Provide transactionId and a positive amount"]
            /\ UNCHANGED <<balance, blockchain, difficulty, disk, now>>
       ELSE IF ~valid
         THEN /\ resp' = 500
              /\ sent' = [error |-> "Blockchain invalid"]
              /\ UNCHANGED <<balance, blockchain, difficulty, disk, now>>
         ELSE /\ Len(blockchain) < MaxLen
              /\ MineReturns(difficulty)
              /\ AppendTransaction(transactionId, amt.val)
              /\ sent' = DepositBody(balance', Tip(blockchain'))

\* A deposit request arrives and is handled at once.
Deposit ==
  \E valid \in {isBlockchainValid(blockchain, chainId, difficulty)},
     body \in DepositBodies :
    PostDeposit(body, valid) /\ UNCHANGED pending

\* -------------------------------------------------------------- webhook
isValidSquareSignature(sig) ==
  IF ~signatureKey THEN FALSE ELSE sig = "match"

\* The handler of POST /square-webhook on a delivery.
PostSquareWebhook(event, valid) ==
  LET paymentId == event.id
      rule == RuleOf(transactionRules, paymentId)
  IN
  /\ req' = [op |-> "webhook", transactionId |-> paymentId, blockId |-> <<>>,
             amount |-> Amount("absent", 0),
             signature |-> event.signature, type |-> event.type]
  /\ UNCHANGED <<transactionRules, chainId, signatureKey, writable>>
  /\ IF ~isValidSquareSignature(event.signature)
       THEN /\ resp' = 401
            /\ sent' = [text |-> "Invalid signature"]
            /\ UNCHANGED <<balance, blockchain, difficulty, disk, now>>
       ELSE IF ~valid
         THEN /\ resp' = 500
              /\ sent' = [text |-> "Blockchain invalid."]
              /\ UNCHANGED <<balance, blockchain, difficulty, disk, now>>
         ELSE IF event.type = "payment.created" /\ rule # <<>> /\ rule[1] # 0
           THEN /\ Len(blockchain) < MaxLen
                /\ MineReturns(difficulty)
                /\ AppendTransaction(paymentId, rule[1])
                /\ sent' = [text |-> IF writable THEN "OK" ELSE "Internal Server Error"]
           ELSE /\ resp' = 200
                /\ sent' = [text |-> "OK"]
                /\ UNCHANGED <<balance, blockchain, difficulty, disk, now>>

\* A webhook delivery arrives and is handled at once.
SquareWebhook ==
  \E valid \in {isBlockchainValid(blockchain, chainId, difficulty)},
     event \in WebhookEvents :
    PostSquareWebhook(event, valid) /\ UNCHANGED pending

\* -------------------------------------------------------------- restart
\* The process is stopped and node runs server.js again on the data.json
\* that the last saveData left.
Restart ==
  \E e \in (IF disk.blockchain = <<>> THEN Elapsed ELSE {0}) :
    \E m \in {BootServer(disk, now, e)} :
    /\ balance' = m.balance
    /\ transactionRules' = m.transactionRules
    /\ blockchain' = m.blockchain
    /\ difficulty' = m.difficulty
    /\ chainId' = m.chainId
    /\ disk' = m.disk
    /\ now' = m.now
    /\ req' = NoRequest("restart")
    /\ resp' = 0
    /\ sent' = NoBody
    /\ pending' = <<>>
    /\ UNCHANGED <<signatureKey, writable>>

Next == Deposit \/ SquareWebhook \/ Restart

Spec == Init /\ [][Next]_vars

\* -------------------------------------------------------- read endpoints
\* blockchain.find(b => b.blockId === blockId); <<>> is undefined.  find with a
\* slip: it returns the last block, whatever its blockId.
find_Tip(chain, blockId) == <<chain[Len(chain)]>>

\* blockchain.find(b => b.blockId === blockId); <<>> is undefined
find(chain, blockId) ==
  LET hits == {i \in 1..Len(chain) : chain[i].blockId = blockId}
  IN IF hits = {} THEN <<>> ELSE <<chain[Least(hits)]>>

\* blockchain.filter(b => b.transactionId === transactionId)
filter(chain, transactionId) ==
  SelectSeq(chain, LAMBDA b : b.transactionId = transactionId)

\* The GET requests explored: the three without a parameter, /blocks/:blockId
\* with the id of the first block, of the tip and with an id no block has, and
\* /tx/:transactionId with two ids that blocks carry and one that none does.
Queries ==
  {[NoRequest(op) EXCEPT !.op = op] : op \in {"GET /chain", "GET /state", "GET /balance"}}
    \cup {[NoRequest("GET /blocks") EXCEPT !.blockId = id] :
            id \in {blockchain[1].blockId, Tip(blockchain).blockId, <<1>>}}
    \cup {[NoRequest("GET /tx") EXCEPT !.transactionId = tx] :
            tx \in {"dep1", "pay1", "none"}}

\* The status and body each read handler sends.
Answer(q) ==
  CASE q.op = "GET /chain" ->
         [status |-> 200,
          body |-> [chainId |-> chainId, name |-> Seeds[1], hope |-> Seeds[2],
                    friend |-> Seeds[3], length |-> Len(blockchain),
                    head |-> [index |-> Tip(blockchain).index,
                              hash |-> Tip(blockchain).hash,
                              blockId |-> Tip(blockchain).blockId,
                              timestamp |-> Tip(blockchain).timestamp],
                    difficulty |-> difficulty]]
    [] q.op = "GET /state" ->
         [status |-> 200,
          body |-> [balance |-> balance, transactionRules |-> transactionRules,
                    blockchain |-> blockchain, difficulty |-> difficulty,
                    chainId |-> chainId]]
    [] q.op = "GET /balance" -> [status |-> 200, body |-> [balance |-> balance]]
    [] q.op = "GET /blocks" ->
         IF find(blockchain, q.blockId) = <<>>
           THEN [status |-> 404, body |-> [error |-> "Block not found"]]
           ELSE [status |-> 200, body |-> find(blockchain, q.blockId)[1]]
    [] q.op = "GET /tx" ->
         IF Len(filter(blockchain, q.transactionId)) = 0
           THEN [status |-> 404, body |-> [error |-> "No blocks for that transactionId"]]
           ELSE [status |-> 200, body |-> filter(blockchain, q.transactionId)]

\* One of the five GET handlers runs.
Query ==
  \E q \in Queries :
    /\ req' = q
    /\ resp' = Answer(q).status
    /\ sent' = Answer(q).body
    /\ UNCHANGED <<balance, transactionRules, blockchain, difficulty, chainId, disk,
                   now, signatureKey, writable, pending>>

\* server.js deployed with a signature key, a data.json without a usable
\* difficulty and rules that price the first genesis transaction, serving
\* reads between the writes.
InitReads == Init /\ transactionRules = GenesisRules

NextReads == Deposit \/ SquareWebhook \/ Restart \/ Query

SpecReads == InitReads /\ [][NextReads]_vars

\* ------------------------------------------------- data.json not writable
\* The volume that holds data.json fills up or turns read-only while the
\* server runs: from then on fs.writeFileSync throws.
WriteFails ==
  /\ writable
  /\ writable' = FALSE
  /\ UNCHANGED <<balance, transactionRules, blockchain, difficulty, chainId, disk,
                 now, signatureKey, pending, req, resp, sent>>

NextSaveFails == Deposit \/ SquareWebhook \/ WriteFails

SpecSaveFails == Init /\ [][NextSaveFails]_vars

\* ------------------------------------------------------ pending requests
MaxPending == 2   \* requests waiting in the event loop at one time

\* The requests that clients send while others wait.
PendingRequests ==
  { [op |-> "deposit", body |-> [transactionId |-> "dep1", amount |-> Amount("num", 2)]],
    [op |-> "webhook",
     body |-> [signature |-> "match", type |-> "payment.created", id |-> "pay1"]] }

\* A request reaches the server while it is busy or idle: node queues it.
Arrive ==
  \E r \in PendingRequests :
    /\ Len(pending) < MaxPending
    /\ pending' = Append(pending, [op |-> r.op, body |-> r.body, arrived |-> now])
    /\ UNCHANGED <<balance, transactionRules, blockchain, difficulty, chainId, disk,
                   now, signatureKey, writable, req, resp, sent>>

\* The transaction a waiting request asks to append.
PendingTx(r) == IF r.op = "deposit" THEN r.body.transactionId ELSE r.body.id
PendingAmount(r) ==
  IF r.op = "deposit" THEN Number(r.body.amount).val
  ELSE RuleOf(transactionRules, r.body.id)[1]

\* The event loop with a slip: the handlers of the two oldest waiting requests
\* run interleaved, both read the tip before either pushes its block.
Serve_Interleaved ==
  /\ Len(pending) >= 2
  /\ pending' = Tail(Tail(pending))
  /\ LET prev == Tip(blockchain)
         first == mineBlock(Len(blockchain), prev.hash, PendingTx(pending[1]),
                            PendingAmount(pending[1]), difficulty, chainId, now, 0)
         second == mineBlock(Len(blockchain), prev.hash, PendingTx(pending[2]),
                             PendingAmount(pending[2]), difficulty, chainId, now, 0)
     IN /\ blockchain' = blockchain \o <<first, second>>
        /\ balance' = balance + PendingAmount(pending[1]) + PendingAmount(pending[2])
  /\ resp' = 200
  /\ UNCHANGED <<transactionRules, difficulty, chainId, disk, now, signatureKey,
                 writable, req, sent>>

\* The event loop calls the handler of the oldest waiting request.  Both
\* handlers are synchronous functions: each runs from its first statement to
\* res.json / res.send before the loop takes the next request.
Serve ==
  /\ pending # <<>>
  /\ pending' = Tail(pending)
  /\ \E valid \in {isBlockchainValid(blockchain, chainId, difficulty)} :
       IF Head(pending).op = "deposit"
         THEN PostDeposit(Head(pending).body, valid)
         ELSE PostSquareWebhook(Head(pending).body, valid)

\* server.js deployed with a webhook signature key.
InitPending == Init /\ signatureKey

NextPending == Arrive \/ Serve

SpecPending == InitPending /\ [][NextPending]_vars

\* ------------------------------------------- the auto-fix build (part_001)
MaxDeposited == 6   \* its deposits are explored while balance is below this

\* A data.json whose chain holds one genesis block, mined at difficulty 1.
SingleBlockChain ==
  << mineBlock(0, <<0>>, FirstTxId, 0, 1, computeChainId(Seeds), 0, 0) >>

AutoFixDataFiles ==
  { [balance |-> 0, transactionRules |-> NoRules, blockchain |-> <<>>,
     difficulty |-> <<>>, chainId |-> <<>>],
    [balance |-> 0, transactionRules |-> GenesisRules, blockchain |-> <<>>,
     difficulty |-> <<1>>, chainId |-> <<>>],
    [balance |-> 0, transactionRules |-> NoRules, blockchain |-> <<>>,
     difficulty |-> <<-1>>, chainId |-> <<>>],
    [balance |-> 0, transactionRules |-> NoRules, blockchain |-> SingleBlockChain,
     difficulty |-> <<-1>>, chainId |-> <<>>],
    \* the difficulty has reached the number of digits of a hash
    [balance |-> 0, transactionRules |-> NoRules, blockchain |-> <<>>,
     difficulty |-> <<HashLen>>, chainId |-> <<>>] }

\* difficulty = difficulty || 4
AutoFixDifficulty(data) ==
  IF data.difficulty = <<>> \/ data.difficulty[1] = 0
    THEN DefaultDifficulty ELSE data.difficulty[1]

\* With a negative difficulty '0'.repeat throws: in the validator once a block
\* reaches the proof-of-work check, in the miner otherwise.  Only a chain of one
\* block needs neither.
BootAutoFixThrows(data) == AutoFixDifficulty(data) < 0 /\ Len(data.blockchain) # 1

\* Object.keys(transactionRules).slice(-1)[0] || "initial-tx"
LastRuleKeyAutoFix(rules) == IF rules = <<>> THEN "initial-tx" ELSE rules[Len(rules)].id

\* [firstTx, secondTx, lastTx].forEach(...) of part_001
GenesisAutoFix(rules, diff, cid, t0, e) ==
  pushGenesis(
    pushGenesis(
      pushGenesis(<<>>, FirstTxId, rules, diff, cid, t0, e),
      SecondTxId, rules, diff, cid, t0, e),
    LastRuleKeyAutoFix(rules), rules, diff, cid, t0, e)

\* Module top level of part_001: load, derive chainId, default the difficulty,
\* and replace an empty or invalid chain by three fresh genesis blocks.
BootAutoFix(data, t0, e) ==
  IF \/ ~isBlockchainValid(data.blockchain, LoadedChainId(data), AutoFixDifficulty(data))
     \/ data.blockchain = <<>>
    THEN booted(data, LoadedChainId(data), AutoFixDifficulty(data),
                GenesisAutoFix(data.transactionRules, AutoFixDifficulty(data),
                               LoadedChainId(data), t0, e),
                t0 + 3 * e, TRUE)
    ELSE booted(data, LoadedChainId(data), AutoFixDifficulty(data), data.blockchain, t0, FALSE)

InitAutoFix ==
  \E data \in AutoFixDataFiles, e \in Elapsed :
    /\ ~BootAutoFixThrows(data)
    /\ \E m \in {BootAutoFix(data, 0, e)} :
         /\ balance = m.balance
         /\ transactionRules = m.transactionRules
         /\ blockchain = m.blockchain
         /\ difficulty = m.difficulty
         /\ chainId = m.chainId
         /\ disk = m.disk
         /\ now = m.now
    /\ signatureKey = FALSE
    /\ writable = TRUE
    /\ pending = <<>>
    /\ req = NoRequest("boot")
    /\ resp = 0
    /\ sent = NoBody

\* POST /deposit of part_001: no validator call before mining.  A throwing
\* mineBlock leaves the handler before the push; express answers 500.
DepositAutoFix ==
  \E body \in DepositBodies :
    LET transactionId == body.transactionId
        amt == Number(body.amount)
    IN
    /\ req' = [op |-> "deposit", transactionId |-> transactionId,
               blockId |-> <<>>, amount |-> body.amount, signature |-> "", type |-> ""]
    /\ UNCHANGED <<transactionRules, chainId, signatureKey, writable, pending>>
    /\ IF transactionId = "" \/ ~amt.finite \/ amt.val <= 0
         THEN /\ resp' = 400
              /\ sent' = [error |-> "Provide transactionId and positive amount"]
              /\ UNCHANGED <<balance, blockchain, difficulty, disk, now>>
         ELSE IF MineThrows(difficulty)
           THEN /\ resp' = 500
                /\ sent' = [error |-> "Internal Server Error"]
                /\ UNCHANGED <<balance, blockchain, difficulty, disk, now>>
           ELSE /\ balance < MaxDeposited
                /\ MineReturns(difficulty)
                /\ AppendTransaction(transactionId, amt.val)
                /\ sent' = DepositBody(balance', Tip(blockchain'))

\* The process is stopped and node runs part_001 again on data.json.
RestartAutoFix ==
  \E e \in Elapsed :
    /\ ~BootAutoFixThrows(disk)
    /\ \E m \in {BootAutoFix(disk, now, e)} :
         /\ balance' = m.balance
         /\ transactionRules' = m.transactionRules
         /\ blockchain' = m.blockchain
         /\ difficulty' = m.difficulty
         /\ chainId' = m.chainId
         /\ disk' = m.disk
         /\ now' = m.now
    /\ req' = NoRequest("restart")
    /\ resp' = 0
    /\ sent' = NoBody
    /\ pending' = <<>>
    /\ UNCHANGED <<signatureKey, writable>>

NextAutoFix == DepositAutoFix \/ RestartAutoFix

SpecAutoFix == InitAutoFix /\ [][NextAutoFix]_vars

\* --------------------------------------- the webhook-only build (part_000)
\* The two genesis blocks of part_000.
GenesisWebhookOnly(rules, diff, cid, t0, e) ==
  pushGenesis(pushGenesis(<<>>, FirstTxId, rules, diff, cid, t0, e),
              SecondTxId, rules, diff, cid, t0, e)

\* Module top level of part_000: load, derive chainId, clamp difficulty, mine
\* two genesis blocks into an empty chain and save.
BootWebhookOnly(data, t0, e) ==
  IF data.blockchain = <<>>
    THEN booted(data, LoadedChainId(data), ServerDifficulty(data),
                GenesisWebhookOnly(data.transactionRules, ServerDifficulty(data),
                                   LoadedChainId(data), t0, e),
                t0 + 2 * e, TRUE)
    ELSE booted(data, LoadedChainId(data), ServerDifficulty(data), data.blockchain, t0, FALSE)

InitWebhookOnly ==
  \E dep \in Deployments, e \in Elapsed :
    LET data == [balance |-> 0, transactionRules |-> dep.rules, blockchain |-> <<>>,
                 difficulty |-> dep.difficulty, chainId |-> <<>>]
    IN \E m \in {BootWebhookOnly(data, 0, e)} :
       /\ balance = m.balance
       /\ transactionRules = m.transactionRules
       /\ blockchain = m.blockchain
       /\ difficulty = m.difficulty
       /\ chainId = m.chainId
       /\ disk = m.disk
       /\ now = m.now
       /\ signatureKey = dep.key
       /\ writable = TRUE
       /\ pending = <<>>
       /\ req = NoRequest("boot")
       /\ resp = 0
       /\ sent = NoBody

\* POST /square-webhook of part_000.  Its isValidSquareSignature has no test
\* of WEBHOOK_SIGNATURE_KEY: without the key crypto.createHmac('sha1',
\* undefined) throws a TypeError, which express answers 500.  With the key the
\* handler is the one of server.js, statement by statement.
SquareWebhookOnly ==
  \E valid \in {isBlockchainValid(blockchain, chainId, difficulty)},
     event \in WebhookEvents :
    /\ UNCHANGED pending
    /\ IF signatureKey
         THEN PostSquareWebhook(event, valid)
         ELSE /\ req' = [op |-> "webhook", transactionId |-> event.id, blockId |-> <<>>,
                         amount |-> Amount("absent", 0),
                         signature |-> event.signature, type |-> event.type]
              /\ resp' = 500
              /\ sent' = [text |-> "Internal Server Error"]
              /\ UNCHANGED <<balance, transactionRules, blockchain, difficulty, chainId,
                             disk, now, signatureKey, writable>>

\* The process is stopped and node runs part_000 again on data.json.
RestartWebhookOnly ==
  \E e \in (IF disk.blockchain = <<>> THEN Elapsed ELSE {0}) :
    \E m \in {BootWebhookOnly(disk, now, e)} :
    /\ balance' = m.balance
    /\ transactionRules' = m.transactionRules
    /\ blockchain' = m.blockchain
    /\ difficulty' = m.difficulty
    /\ chainId' = m.chainId
    /\ disk' = m.disk
    /\ now' = m.now
    /\ req' = NoRequest("restart")
    /\ resp' = 0
    /\ sent' = NoBody
    /\ pending' = <<>>
    /\ UNCHANGED <<signatureKey, writable>>

NextWebhookOnly == SquareWebhookOnly \/ RestartWebhookOnly

SpecWebhookOnly == InitWebhookOnly /\ [][NextWebhookOnly]_vars

\* ================================================================ claims
vState == <<blockchain, balance, difficulty, disk>>

Valid == isBlockchainValid(blockchain, chainId, difficulty)

\* The amount a request asks to append, and whether it is an append request
\* that passes the input checks of its endpoint.
DepositOk(r) ==
  /\ r.op = "deposit" /\ r.transactionId # ""
  /\ Number(r.amount).finite /\ Number(r.amount).val > 0

WebhookOk(r) ==
  /\ r.op = "webhook" /\ isValidSquareSignature(r.signature)
  /\ r.type = "payment.created"
  /\ RuleOf(transactionRules, r.transactionId) # <<>>
  /\ RuleOf(transactionRules, r.transactionId)[1] # 0

RequestedAmount(r) ==
  IF r.op = "deposit" THEN Number(r.amount).val
  ELSE RuleOf(transactionRules, r.transactionId)[1]

\* C1: in every state reached from an empty store by genesis initialization,
\* deposits and webhooks, the validator accepts the chain the program built.
C1_ChainStaysValid == Valid

\* C2: a deposit or webhook arriving while the validator rejects the chain is
\* refused and leaves blocks, balance, difficulty and data.json unchanged.
C2_InvalidChainRefused ==
  [][ (~Valid /\ req'.op \in {"deposit", "webhook"})
        => (resp' # 200 /\ UNCHANGED vState) ]_vars

\* C3: every block after the first links to the hash of the block before it,
\* carries the chain's chainId, and has the index of the block before it plus 1.
C3_Linked ==
  \A i \in 2..Len(blockchain) :
    /\ blockchain[i].prevHash = blockchain[i - 1].hash
    /\ blockchain[i].chainId = chainId
    /\ blockchain[i].index = blockchain[i - 1].index + 1

\* A chain holding the genesis blocks, a deposited block and a webhook block.
C3_Witness ==
  /\ Len(blockchain) >= 5
  /\ \E i \in 4..Len(blockchain) : blockchain[i].transactionId = "dep1"
  /\ \E i \in 4..Len(blockchain) : blockchain[i].transactionId = "pay1"

\* C4: a successful append of (tx, amt), by deposit or webhook, adds exactly
\* one block after the unchanged old chain; its index is the old length, its
\* prevHash the old tip's hash, it records (tx, amt), and balance grows by amt.
C4_AppendEffect ==
  [][ (resp' = 200 /\ (DepositOk(req') \/ WebhookOk(req')))
        => LET old == Len(blockchain)
               new == blockchain'[Len(blockchain')]
           IN /\ Len(blockchain') = old + 1
              /\ SubSeq(blockchain', 1, old) = blockchain
              /\ new.index = old
              /\ new.prevHash = blockchain[old].hash
              /\ new.transactionId = req'.transactionId
              /\ new.amount = RequestedAmount(req')
              /\ balance' = balance + RequestedAmount(req') ]_vars

\* A webhook has just appended its block on top of an earlier deposit.
C4_Witness ==
  /\ resp = 200 /\ WebhookOk(req)
  /\ blockchain[Len(blockchain)].transactionId = req.transactionId
  /\ blockchain[Len(blockchain)].index = Len(blockchain) - 1
  /\ \E i \in 4..Len(blockchain) : blockchain[i].transactionId = "dep1"
  /\ balance > 0

\* C5: a deposit with a missing id or a non-positive or non-finite amount is
\* answered 400 with no state change, and no append from any source adds a
\* block with amount <= 0 or lowers the balance.
C5_OnlyPositiveAmounts ==
  [][ /\ (req'.op = "deposit" /\ ~DepositOk(req'))
          => (resp' = 400 /\ UNCHANGED vState)
      /\ (req'.op \in {"deposit", "webhook"} /\ Len(blockchain') > Len(blockchain))
          => blockchain'[Len(blockchain')].amount > 0
      /\ balance' >= balance ]_vars

\* One character of a stored hash string changed.
Tampered(h) == {[h EXCEPT ![k] = 1 - h[k]] : k \in 1..Len(h)}

\* C6: changing the stored hash or the stored prevHash of any one block of a
\* chain the validator accepts gives a chain the validator rejects.
C6_TamperDetected ==
  Valid =>
    \A i \in 1..Len(blockchain) :
      /\ \A h \in Tampered(blockchain[i].hash) :
           ~isBlockchainValid([blockchain EXCEPT ![i].hash = h], chainId, difficulty)
      /\ \A h \in Tampered(blockchain[i].prevHash) :
           ~isBlockchainValid([blockchain EXCEPT ![i].prevHash = h], chainId, difficulty)

RECURSIVE SumAmounts(_)
SumAmounts(chain) ==
  IF chain = <<>> THEN 0 ELSE SumAmounts(Tail(chain)) + Head(chain).amount

\* C7: balance equals the sum of the amounts of all blocks of the chain.
C7_BalanceIsSum == balance = SumAmounts(blockchain)

\* C8: an append that brings the length to a multiple of 5 compares the
\* timestamps of the last block and of the block 5 positions from the end with
\* expected = 3000 * 5: below expected/2 difficulty grows by 1, above
\* 2*expected (and difficulty > 1) it shrinks by 1, otherwise it is unchanged.
C8_Adjustment ==
  [][ (Len(blockchain') = Len(blockchain) + 1 /\ Len(blockchain') % 5 = 0)
        => LET len == Len(blockchain')
               actual == blockchain'[len].timestamp - blockchain'[len - 4].timestamp
               expected == 3000 * 5
           IN difficulty' =
                IF 2 * actual < expected THEN difficulty + 1
                ELSE IF actual > 2 * expected /\ difficulty > 1 THEN difficulty - 1
                ELSE difficulty ]_vars

\* The fifth block arrived late and the difficulty went down from its default.
C8_Witness ==
  /\ Len(blockchain) = 5 /\ resp = 200
  /\ blockchain[5].timestamp - blockchain[1].timestamp > 30000
  /\ difficulty = DefaultDifficulty - 1

\* C9: difficulty is an integer >= 1, whatever data.json held.
C9_DifficultyAtLeastOne == difficulty \in Nat /\ difficulty >= 1

\* C10: every step leaves the old block sequence as a prefix of the new one.
C10_AppendOnly ==
  [][ /\ Len(blockchain) <= Len(blockchain')
      /\ SubSeq(blockchain', 1, Len(blockchain)) = blockchain ]_vars
\* The digest of the toy hasher depends on the nonce modulo Modulus only, so
\* the nonces 1..Modulus show every hash the search can ever see.
SearchEnds(transactionId, amt) ==
  \E nonce \in 1..Modulus :
    Accepted(Len(blockchain), Tip(blockchain).hash,
             sha256(<<TxCode(transactionId), 0, amt + 8>>), nonce, now, chainId,
             makeBlockId(Len(blockchain), transactionId, now), Zeros(difficulty))

\* C11: at every difficulty >= 1 the chain comes to hold, the nonce search of
\* the next append ends: some nonce gives a hash with `difficulty` leading zeros.
C11_MineReturns == difficulty >= 1 => SearchEnds("dep1", 2)

\* The leading characters of a hash that are '0'.
LeadingZeros(hash, n) == \A k \in 1..Min(n, Len(hash)) : hash[k] = 0

\* C12: the genesis blocks, and every block a request appends, have a hash
\* with min(d, length of the hash) leading zeros, d being the difficulty
\* before the append (and so before the adjustment the append may trigger).
C12_ProofOfWork ==
  /\ req.op = "boot" =>
       \A i \in 1..Len(blockchain) : LeadingZeros(blockchain[i].hash, difficulty)
  /\ [][ \A i \in (Len(blockchain) + 1)..Len(blockchain') :
            req'.op \in {"deposit", "webhook"}
              => LeadingZeros(blockchain'[i].hash, difficulty) ]_vars

\* The fifth block was mined with 4 leading zeros, not 5, and its append
\* raised the difficulty to 5.
C12_Witness ==
  /\ Len(blockchain) = 5 /\ resp = 200
  /\ difficulty = DefaultDifficulty + 1
  /\ LeadingZeros(blockchain[5].hash, DefaultDifficulty)
  /\ blockchain[5].hash[DefaultDifficulty + 1] = 1

\* C13: a start on a data.json whose chain is empty or rejected by the
\* validator leaves three freshly mined genesis blocks in its place; a start
\* on a non-empty chain the validator accepts keeps the chain as loaded.
C13_StartupRepairs ==
  [][ req'.op = "restart" =>
        IF \/ disk.blockchain = <<>>
           \/ ~isBlockchainValid(disk.blockchain, chainId', difficulty')
          THEN /\ Len(blockchain') = 3
               /\ blockchain' # disk.blockchain
               /\ blockchain'[1].index = 0 /\ blockchain'[1].prevHash = <<0>>
               /\ \A i \in 1..3 : blockchain'[i].timestamp >= now
          ELSE blockchain' = disk.blockchain ]_vars
TxIds(chain) == [i \in 1..Len(chain) |-> chain[i].transactionId]

\* C14: after genesis initialization on an empty store the chain id is the
\* hash of the identity seeds, block 0 has index 0 and prevHash '0', every later
\* genesis block links to the hash of the one before it, and a second
\* initialization with the same seeds and rules, started at another time and
\* mining at another pace, gives the same length, transactionId sequence and
\* chain id.
C14_GenesisDeterministic ==
  req.op = "boot" =>
    /\ chainId = computeChainId(Seeds)
    /\ blockchain[1].index = 0 /\ blockchain[1].prevHash = <<0>>
    /\ \A i \in 2..Len(blockchain) : blockchain[i].prevHash = blockchain[i - 1].hash
    /\ \A e2 \in Elapsed :
         \A again \in {BootServer([disk EXCEPT !.blockchain = <<>>, !.chainId = <<>>],
                                  now + 1, e2)} :
           /\ Len(again.blockchain) = Len(blockchain)
           /\ TxIds(again.blockchain) = TxIds(blockchain)
           /\ again.chainId = chainId

\* Genesis on rules that price the first transaction and name a last key.
C14_Witness ==
  /\ req.op = "boot" /\ Len(blockchain) = 3
  /\ TxIds(blockchain) = <<FirstTxId, SecondTxId, "pay1">>
  /\ blockchain[1].amount = 5 /\ blockchain[3].amount = 3
  /\ blockchain[3].timestamp > blockchain[1].timestamp

\* C15: an append whose save fails is undone as a whole: the request is not
\* answered 200 and the chain, balance and difficulty in memory are those from
\* before the attempt.
C15_FailedSaveUndone ==
  [][ (~writable /\ Valid /\ (DepositOk(req') \/ WebhookOk(req')))
        => (resp' # 200 /\ UNCHANGED <<blockchain, balance, difficulty>>) ]_vars
\* The state in memory, as saveData would be handed it.
InMemory ==
  [balance |-> balance, transactionRules |-> transactionRules,
   blockchain |-> blockchain, difficulty |-> <<difficulty>>, chainId |-> <<chainId>>]

\* C16: after genesis initialization and after every successful append, and so
\* in every state between two requests, data.json holds the state in memory:
\* the blocks with the new block, the balance after the credit, the difficulty
\* after the adjustment, and the chain id.
C16_SavedIsCurrent == disk = InMemory

\* The fifth block has just been appended, the difficulty went up with it, and
\* data.json holds the five blocks and the new difficulty.
C16_Witness ==
  /\ resp = 200 /\ req.op \in {"deposit", "webhook"}
  /\ Len(blockchain) = 5 /\ difficulty = DefaultDifficulty + 1
  /\ Len(disk.blockchain) = 5 /\ disk.difficulty = <<DefaultDifficulty + 1>>
  /\ disk.balance = balance /\ balance > 0

\* C17: with several deposit and webhook requests waiting at once, in any
\* arrival order, the blocks they leave have the consecutive indexes 0, 1, 2,
\* ... and each has the hash of the block right before it as prevHash: no two
\* of them were mined on the same tip.
C17_Serialized ==
  \A i \in 1..Len(blockchain) :
    /\ blockchain[i].index = i - 1
    /\ i > 1 => blockchain[i].prevHash = blockchain[i - 1].hash

\* A request was answered 200 with its block as the tip while another request,
\* which had arrived before the mining of that block began, is still waiting.
C17_Witness ==
  /\ pending # <<>> /\ resp = 200 /\ Len(blockchain) >= 4
  /\ Tip(blockchain).transactionId = req.transactionId
  /\ Head(pending).arrived <= Tip(blockchain).timestamp
  /\ now > Tip(blockchain).timestamp
  /\ Head(pending).op # req.op

\* C18: genesis initialization leaves the difficulty the startup set (4 for a
\* data.json without a usable one); a read, a refused request and an append
\* that brings the length to a non-multiple of 5 leave difficulty unchanged;
\* and a step that changes difficulty is an append that changes no block of
\* the old chain and changes the balance by the new block's amount only.
C18_DifficultyFrame ==
  /\ req.op = "boot" => difficulty = DefaultDifficulty
  /\ [][ /\ (Len(blockchain') % 5 # 0 \/ blockchain' = blockchain)
             => difficulty' = difficulty
         /\ difficulty' # difficulty
             => /\ Len(blockchain') = Len(blockchain) + 1
                /\ SubSeq(blockchain', 1, Len(blockchain)) = blockchain
                /\ balance' = balance + Tip(blockchain').amount ]_vars

\* The chain summary is read after the fifth block raised the difficulty.
C18_Witness ==
  /\ req.op = "GET /chain" /\ resp = 200
  /\ Len(blockchain) = 5 /\ difficulty = DefaultDifficulty + 1
  /\ sent.difficulty = difficulty /\ sent.length = 5

\* C19: the chain id is set at startup, to the persisted one when data.json
\* has one and to the hash of the three identity seeds otherwise; no deposit,
\* webhook, adjustment or read changes it, and every block carries it.
C19_ChainIdFixed ==
  /\ req.op = "boot" => chainId = computeChainId(Seeds)
  /\ [] (\A i \in 1..Len(blockchain) : blockchain[i].chainId = chainId)
  /\ [][ /\ req'.op # "restart" => chainId' = chainId
         /\ req'.op = "restart"
             => chainId' = IF disk.chainId # <<>> THEN disk.chainId[1]
                           ELSE computeChainId(Seeds) ]_vars

\* The server was restarted on a data.json that holds the chain id and a
\* block appended by a request.
C19_Witness ==
  /\ req.op = "restart" /\ Len(blockchain) >= 4
  /\ disk.chainId = <<chainId>>
  /\ Tip(blockchain).chainId = chainId /\ Tip(blockchain).transactionId = "pay1"

ReadOps == {"GET /chain", "GET /state", "GET /balance", "GET /blocks", "GET /tx"}

\* The blocks of a chain that carry a transaction id, in chain order.
RECURSIVE Matching(_, _)
Matching(chain, tx) ==
  IF chain = <<>> THEN <<>>
  ELSE (IF Head(chain).transactionId = tx THEN <<Head(chain)>> ELSE <<>>)
         \o Matching(Tail(chain), tx)

\* C20: a read changes neither the blocks, the balance, the difficulty nor
\* data.json; the lookup by block id answers with a block of the chain that
\* has this blockId when there is one and 404 otherwise; the lookup by
\* transaction id answers with exactly the blocks that carry the id, in chain
\* order, and 404 when there are none.
C20_LookupsExact ==
  [][ req'.op \in ReadOps =>
        /\ UNCHANGED <<blockchain, balance, difficulty, disk, chainId, transactionRules>>
        /\ req'.op = "GET /blocks" =>
             IF \E i \in 1..Len(blockchain) : blockchain[i].blockId = req'.blockId
               THEN /\ resp' = 200
                    /\ \E i \in 1..Len(blockchain) : blockchain[i] = sent'
                    /\ sent'.blockId = req'.blockId
               ELSE resp' = 404
        /\ req'.op = "GET /tx" =>
             IF Matching(blockchain, req'.transactionId) = <<>>
               THEN resp' = 404
               ELSE resp' = 200 /\ sent' = Matching(blockchain, req'.transactionId)
        /\ req'.op = "GET /balance" => resp' = 200 /\ sent'.balance = balance ]_vars

\* The lookup by transaction id has answered with the two blocks of one
\* transaction id, the earlier block first.
C20_Witness ==
  /\ req.op = "GET /tx" /\ resp = 200
  /\ Len(sent) = 2 /\ sent[1].index < sent[2].index
  /\ sent[1].transactionId = req.transactionId
  /\ sent[2].transactionId = req.transactionId

\* What a step on a rejected chain may do: it keeps all that the validator
\* reads (blocks, chain id, difficulty) and the balance, refuses a deposit,
\* answers a validly signed webhook 500, and answers a read from that state.
RefusedOrRead ==
  /\ UNCHANGED <<blockchain, chainId, difficulty, balance>>
  /\ req'.op = "deposit" => resp' \in {400, 500}
  /\ (req'.op = "webhook" /\ isValidSquareSignature(req'.signature)) => resp' = 500
  /\ req'.op \in ReadOps => resp' \in {200, 404}
  /\ req'.op = "GET /chain" => sent'.length = Len(blockchain)

\* C21: once the validator rejects the chain, every later deposit is refused,
\* every validly signed webhook is answered 500, blocks, balance and
\* difficulty stay as they were, and the reads are still answered from that
\* state; the validator, which reads nothing but the blocks, the chain id and
\* the difficulty, therefore rejects the chain in every later state.  (Every
\* step either is such a step or starts on a chain the validator accepts.)
C21_CorruptionAbsorbing == [][ RefusedOrRead \/ Valid ]_vars

\* A well-formed deposit was answered 500 on a chain of five blocks that the
\* validator rejects since the difficulty rose.
C21_Witness ==
  /\ ~Valid /\ Len(blockchain) = 5 /\ difficulty = DefaultDifficulty + 1
  /\ DepositOk(req) /\ resp = 500
  /\ disk.blockchain = blockchain

\* C22: a webhook delivery whose signature is invalid, or that arrives with no
\* signature key configured, is answered 401 and changes nothing, whatever the
\* validator says of the chain; a delivery that fails any of the four guards
\* (signature, valid chain, type payment.created, truthy rule amount) leaves
\* blocks, balance, difficulty and data.json unchanged; a delivery that passes
\* all four appends exactly one block, for the payment id and the rule's
\* amount, and credits exactly that amount.
C22_WebhookGuards ==
  [][ req'.op = "webhook" =>
        LET signed == signatureKey /\ req'.signature = "match"
            rule == RuleOf(transactionRules, req'.transactionId)
            truthy == rule # <<>> /\ rule[1] # 0
            passes == signed /\ Valid /\ req'.type = "payment.created" /\ truthy
        IN /\ ~signed => resp' = 401
           /\ ~passes => UNCHANGED vState
           /\ passes => /\ Len(blockchain') = Len(blockchain) + 1
                         /\ SubSeq(blockchain', 1, Len(blockchain)) = blockchain
                         /\ Tip(blockchain').transactionId = req'.transactionId
                         /\ Tip(blockchain').amount = rule[1]
                         /\ balance' = balance + rule[1] ]_vars

\* C23: the first start of server.js on an empty store leaves exactly three
\* blocks; in every reachable state the chain has at least one block; no step
\* (append, read, restart) shortens it; the chain summary reports the tip of
\* a non-empty chain and every appended block is linked to the tip that was
\* there before it.
C23_NeverEmpty ==
  /\ Len(blockchain) = 3
  /\ [](Len(blockchain) >= 1)
  /\ [][ /\ Len(blockchain') >= Len(blockchain)
         /\ req'.op = "GET /chain" =>
              /\ sent'.length >= 1
              /\ sent'.head.index = blockchain[Len(blockchain)].index
              /\ sent'.head.hash = blockchain[Len(blockchain)].hash
         /\ Len(blockchain') > Len(blockchain) =>
              /\ blockchain'[Len(blockchain')].index = Len(blockchain)
              /\ blockchain'[Len(blockchain')].prevHash
                   = blockchain[Len(blockchain)].hash ]_vars

C23_Witness ==
  /\ req.op = "GET /chain"
  /\ resp = 200
  /\ Len(blockchain) = MaxLen
  /\ sent.length = MaxLen
  /\ sent.head.index = MaxLen - 1
  /\ disk.blockchain = blockchain
====
